---- MODULE Spec2Model ----
(***************************************************************************)
(* Progression and economy engine of Grammar Garden Guardians              *)
(* (src/game_logic.js, src/game_data_model.js, shop_items.js).             *)
(*                                                                         *)
(* The module-level variables of game_logic.js (gameState, currentZone,    *)
(* currentLevel) and the localStorage entry are the state.  Every exported *)
(* function is one action.  Strings that the code computes with (shop item *)
(* ids, inventory keys) are sequences of one-character strings, so that    *)
(* the replace / toLowerCase / concatenation of buyItem is computed.       *)
(***************************************************************************)
EXTENDS Integers, Sequences, FiniteSets, TLC

(***************************************************************************)
(* Bounds of the model                                                     *)
(***************************************************************************)
\* number of exported calls (handlers, buyItem, advanceLevel) made after startup
MaxOps == 4
\* the failure handlers are called with the level ids 1 .. MaxLevelIdInput
MaxLevelIdInput == 2

(***************************************************************************)
(* Content catalogue (game_data_model.js).  A Level is its id.             *)
(***************************************************************************)
ZONES ==
  << [id |-> "EnglishGarden", levels |-> <<1, 2, 3, 4, 5, 6>>],
     [id |-> "MossyGlade",    levels |-> <<7, 8, 9, 10, 11, 12>>],
     [id |-> "GrecoRoman",    levels |-> << >>] >>

RECURSIVE FlatLevels(_)
FlatLevels(i) ==
  IF i > Len(ZONES) THEN << >> ELSE ZONES[i].levels \o FlatLevels(i + 1)

\* const allLevels = ZONES.flatMap(zone => zone.levels)
allLevels == FlatLevels(1)

AllLevelIds == { allLevels[i] : i \in 1 .. Len(allLevels) }

\* the value of a failed Array.prototype.find / an out-of-range index (undefined, null)
NoLevel == 0

\* allLevels.find(level => level.id === id)
FindLevel(id) == IF id \in AllLevelIds THEN id ELSE NoLevel

\* ZONES.findIndex(z => z.id === zoneId), 1-based; 0 stands for -1
ZoneIndexOf(zoneId) ==
  IF \E i \in 1 .. Len(ZONES) : ZONES[i].id = zoneId
  THEN CHOOSE i \in 1 .. Len(ZONES) :
         /\ ZONES[i].id = zoneId
         /\ \A j \in 1 .. Len(ZONES) : ZONES[j].id = zoneId => i <= j
  ELSE 0

\* levels[index] of a JavaScript array, index zero-based
LevelAt(levels, index) ==
  IF index >= 0 /\ index < Len(levels) THEN levels[index + 1] ELSE NoLevel

(***************************************************************************)
(* JavaScript values held in the inventory object                          *)
(***************************************************************************)
JNull == [t |-> "null"]
JBool(b) == [t |-> "bool", v |-> b]
JNum(n) == [t |-> "num", v |-> n]
JStr(s) == [t |-> "str", v |-> s]

\* ToBoolean of a property read; a key that is absent reads as undefined
Truthy(obj, key) ==
  IF key \notin DOMAIN obj THEN FALSE
  ELSE LET x == obj[key] IN
       CASE x.t = "null" -> FALSE
         [] x.t = "bool" -> x.v
         [] x.t = "num"  -> x.v # 0
         [] x.t = "str"  -> Len(x.v) > 0

\* obj[key] = value
SetKey(obj, key, value) ==
  [k \in DOMAIN obj \cup {key} |-> IF k = key THEN value ELSE obj[k]]

(***************************************************************************)
(* Strings the code computes with                                          *)
(***************************************************************************)
S_hat == <<"h", "a", "t">>
S_apron == <<"a", "p", "r", "o", "n">>
S_hoe == <<"h", "o", "e">>
S_snakeActive == <<"s", "n", "a", "k", "e", "A", "c", "t", "i", "v", "e">>
S_fertilizerCount ==
  <<"f", "e", "r", "t", "i", "l", "i", "z", "e", "r", "C", "o", "u", "n", "t">>
S_strawHat == <<"s", "t", "r", "a", "w", "H", "a", "t">>
S_fancyApron == <<"f", "a", "n", "c", "y", "A", "p", "r", "o", "n">>
S_goldenHoe == <<"g", "o", "l", "d", "e", "n", "H", "o", "e">>
S_fertilizer == <<"f", "e", "r", "t", "i", "l", "i", "z", "e", "r">>
S_rattlerSnake == <<"r", "a", "t", "t", "l", "e", "r", "S", "n", "a", "k", "e">>
S_cosmetic == <<"c", "o", "s", "m", "e", "t", "i", "c">>
S_consumable == <<"c", "o", "n", "s", "u", "m", "a", "b", "l", "e">>
S_defense == <<"d", "e", "f", "e", "n", "s", "e">>
\* an id that names no shop item
S_unknownItem == <<"p", "e", "t">>

EndsWith(s, suffix) ==
  /\ Len(s) >= Len(suffix)
  /\ SubSeq(s, Len(s) - Len(suffix) + 1, Len(s)) = suffix

\* s.replace(/(Hat|Apron|Hoe)$/, '')
StripSlotSuffix(s) ==
  LET HatS == <<"H", "a", "t">>
      ApronS == <<"A", "p", "r", "o", "n">>
      HoeS == <<"H", "o", "e">>
  IN  IF EndsWith(s, HatS) THEN SubSeq(s, 1, Len(s) - Len(HatS))
      ELSE IF EndsWith(s, ApronS) THEN SubSeq(s, 1, Len(s) - Len(ApronS))
      ELSE IF EndsWith(s, HoeS) THEN SubSeq(s, 1, Len(s) - Len(HoeS))
      ELSE s

UpperLetters ==
  <<"A", "B", "C", "D", "E", "F", "G", "H", "I", "J", "K", "L", "M",
    "N", "O", "P", "Q", "R", "S", "T", "U", "V", "W", "X", "Y", "Z">>
LowerLetters ==
  <<"a", "b", "c", "d", "e", "f", "g", "h", "i", "j", "k", "l", "m",
    "n", "o", "p", "q", "r", "s", "t", "u", "v", "w", "x", "y", "z">>

LowerChar(c) ==
  IF \E i \in 1 .. Len(UpperLetters) : UpperLetters[i] = c
  THEN LowerLetters[CHOOSE i \in 1 .. Len(UpperLetters) : UpperLetters[i] = c]
  ELSE c

\* s.toLowerCase()
ToLowerCase(s) == [i \in 1 .. Len(s) |-> LowerChar(s[i])]

\* s.replace(from, to) with one-character strings: only the first occurrence
ReplaceFirst(s, from, to) ==
  IF \E i \in 1 .. Len(s) : s[i] = from
  THEN LET p == CHOOSE i \in 1 .. Len(s) :
                  /\ s[i] = from
                  /\ \A j \in 1 .. Len(s) : s[j] = from => i <= j
       IN  [i \in 1 .. Len(s) |-> IF i = p THEN to ELSE s[i]]
  ELSE s

\* item.id.replace(/(Hat|Apron|Hoe)$/, '').toLowerCase() + item.type.replace('c', 'C')
CosmeticInventoryKey(item) ==
  ToLowerCase(StripSlotSuffix(item.id)) \o ReplaceFirst(item.type, "c", "C")

(***************************************************************************)
(* Shop catalogue (shop_items.js)                                          *)
(***************************************************************************)
SHOP_ITEMS ==
  << [id |-> S_strawHat, name |-> "Guardian Straw Hat", cost |-> 100,
      currencyType |-> "harvest", type |-> S_cosmetic],
     [id |-> S_fancyApron, name |-> "Reinforced Apron", cost |-> 3,
      currencyType |-> "gem", type |-> S_cosmetic],
     [id |-> S_goldenHoe, name |-> "Golden Trowel", cost |-> 5,
      currencyType |-> "gem", type |-> S_cosmetic],
     [id |-> S_fertilizer, name |-> "Nutrient Fertilizer", cost |-> 50,
      currencyType |-> "harvest", type |-> S_consumable],
     [id |-> S_rattlerSnake, name |-> "The Rattler Defense", cost |-> 10,
      currencyType |-> "gem", type |-> S_defense] >>

ShopItemIds == { SHOP_ITEMS[i].id : i \in 1 .. Len(SHOP_ITEMS) }

\* SHOP_ITEMS.find(i => i.id === itemId); only used when the id is in the shop
FindItem(itemId) ==
  SHOP_ITEMS[CHOOSE i \in 1 .. Len(SHOP_ITEMS) : SHOP_ITEMS[i].id = itemId]

(***************************************************************************)
(* Initial game state (game_data_model.js), with the isInReviewMode field  *)
(* that game_logic.js adds to the same object when the module is evaluated *)
(***************************************************************************)
InitialInventory ==
  (S_hat :> JNull) @@ (S_apron :> JNull) @@ (S_hoe :> JNull)
    @@ (S_snakeActive :> JBool(FALSE)) @@ (S_fertilizerCount :> JNum(0))

INITIAL_GAME_STATE ==
  [ currentZoneId |-> ZONES[1].id,
    currentLevelIndex |-> 0,
    playerHarvest |-> 0,
    playerGems |-> 0,
    imperfectWords |-> << >>,
    inventory |-> InitialInventory,
    gardenHealth |-> 100,
    isBearActive |-> FALSE,
    roundsUntilBearLeaves |-> 0,
    isInReviewMode |-> FALSE ]

\* savedState ? { ...INITIAL_GAME_STATE, ...savedState } : INITIAL_GAME_STATE
loadGameState(savedState) ==
  IF savedState.t = "null" THEN INITIAL_GAME_STATE
  ELSE [k \in DOMAIN INITIAL_GAME_STATE \cup DOMAIN savedState.v |->
          IF k \in DOMAIN savedState.v THEN savedState.v[k]
          ELSE INITIAL_GAME_STATE[k]]

(***************************************************************************)
(* State                                                                   *)
(***************************************************************************)
VARIABLES
  gameState,     \* let gameState (game_logic.js:5)
  currentZone,   \* let currentZone: the position in ZONES of the zone object
  currentLevel,  \* let currentLevel: the id of the level object, or NoLevel
  storage,       \* localStorage entry 'grammarGardenState'
  pc,            \* "boot" until the module's loadProgress() call has run
  ops,           \* number of exported calls made after startup
  last,          \* the last exported call, its arguments and its return value
  before,        \* gameState and currentLevel as they were when that call was made
  threat         \* reward applications with a yield since the last bear trigger

vars == <<gameState, currentZone, currentLevel, storage, pc, ops, last, before, threat>>

\* a save that serialises the pristine INITIAL_GAME_STATE, not the live state
StoredPristine(gs) == [t |-> "json", v |-> INITIAL_GAME_STATE]

\* JSON.stringify(gameState) as stored by localStorage.setItem: every field of the
\* state is a number, a boolean, null, a string or an array/object of these, so the
\* text parses back to an equal value; the stored item is kept as that value
Stored(gs) == [t |-> "json", v |-> gs]

\* the entry before the first save, and an entry whose text is no JSON
StorageMissing == [t |-> "missing"]
StorageMalformed == [t |-> "malformed"]

\* A record an earlier run of the game wrote: thirteen perfect and thirteen
\* imperfect second-phase successes (52 harvest, 13 gems, health 100), five
\* advanceLevel calls without a bear, saved by the sixth call before it advanced
SavedEndOfGarden ==
  [INITIAL_GAME_STATE EXCEPT !.currentLevelIndex = 5,
                             !.playerHarvest = 52,
                             !.playerGems = 13]

\* A record an earlier run wrote: eleven advanceLevel calls without a bear and
\* without any reward, saved by the twelfth call before it advanced
SavedEndOfGlade ==
  [INITIAL_GAME_STATE EXCEPT !.currentZoneId = ZONES[2].id,
                             !.currentLevelIndex = 5]

\* localStorage contents the game is started with
BootStorage ==
  {StorageMissing, StorageMalformed, Stored(SavedEndOfGarden), Stored(SavedEndOfGlade)}

NoCall == [op |-> "none", levelId |-> NoLevel, perfect |-> FALSE, draw |-> 0,
           itemId |-> << >>, success |-> FALSE, message |-> ""]

Call(op) == [NoCall EXCEPT !.op = op]

\* what a call finds when it starts
AtCall == [gameState |-> gameState, currentZone |-> currentZone,
           currentLevel |-> currentLevel, storage |-> storage]

Init ==
  /\ gameState = INITIAL_GAME_STATE
  /\ currentZone = 1
  /\ currentLevel = ZONES[1].levels[1]
  /\ storage \in BootStorage
  /\ pc = "boot"
  /\ ops = 0
  /\ last = NoCall
  /\ before = AtCall
  /\ threat = [triggered |-> FALSE, yields |-> 0]

(***************************************************************************)
(* Review level lookup                                                     *)
(***************************************************************************)
\* a lookup that finds the queue empty and leaves the review flag set
RECURSIVE loadReviewLevelStaysInReview(_, _, _)
loadReviewLevelStaysInReview(gs, cl, peek) ==
  IF Len(gs.imperfectWords) = 0
  THEN [gs |-> gs, currentLevel |-> cl, ret |-> NoLevel, threw |-> FALSE]
  ELSE LET nextLevelId == Head(gs.imperfectWords)
           reviewLevel == FindLevel(nextLevelId)
       IN  IF reviewLevel = NoLevel
           THEN IF peek
                THEN [gs |-> gs, currentLevel |-> cl, ret |-> NoLevel, threw |-> TRUE]
                ELSE loadReviewLevelStaysInReview(
                       [gs EXCEPT !.imperfectWords = Tail(@)], cl, peek)
           ELSE [gs |-> gs, currentLevel |-> reviewLevel, ret |-> reviewLevel,
                 threw |-> FALSE]

\* a lookup that gives up at a head that names no level
loadReviewLevelGivesUp(gs, cl, peek) ==
  IF Len(gs.imperfectWords) = 0
  THEN [gs |-> IF peek THEN gs ELSE [gs EXCEPT !.isInReviewMode = FALSE],
        currentLevel |-> cl, ret |-> NoLevel, threw |-> FALSE]
  ELSE LET nextLevelId == Head(gs.imperfectWords)
           reviewLevel == FindLevel(nextLevelId)
       IN  IF reviewLevel = NoLevel
           THEN [gs |-> gs, currentLevel |-> cl, ret |-> NoLevel, threw |-> peek]
           ELSE [gs |-> gs, currentLevel |-> reviewLevel, ret |-> reviewLevel,
                 threw |-> FALSE]

\* Result: the state, the currentLevel variable, the returned level (NoLevel for
\* null) and whether the call threw.  With peek, a head that names no level is
\* not removed and the function calls itself on the same queue without end: the
\* engine's stack overflows and a RangeError is thrown.
RECURSIVE loadReviewLevel(_, _, _)
loadReviewLevel(gs, cl, peek) ==
  IF Len(gs.imperfectWords) = 0
  THEN [gs |-> IF peek THEN gs ELSE [gs EXCEPT !.isInReviewMode = FALSE],
        currentLevel |-> cl, ret |-> NoLevel, threw |-> FALSE]
  ELSE LET nextLevelId == Head(gs.imperfectWords)
           reviewLevel == FindLevel(nextLevelId)
       IN  IF reviewLevel = NoLevel
           THEN IF peek
                THEN [gs |-> gs, currentLevel |-> cl, ret |-> NoLevel, threw |-> TRUE]
                ELSE loadReviewLevel([gs EXCEPT !.imperfectWords = Tail(@)], cl, peek)
           ELSE [gs |-> gs, currentLevel |-> reviewLevel, ret |-> reviewLevel,
                 threw |-> FALSE]

(***************************************************************************)
(* Startup: loadProgress()                                                 *)
(***************************************************************************)
\* JSON.parse(localStorage.getItem(key)): a missing entry reads as null and
\* JSON.parse(null) is null; a malformed entry makes JSON.parse throw
ParsedStorage == IF storage.t = "json" THEN [t |-> "obj", v |-> storage.v] ELSE JNull

\* the catch block without its saveProgress() call
LoadCatchWithoutSave(cz, cl) ==
  /\ gameState' = INITIAL_GAME_STATE
  /\ currentZone' = cz
  /\ currentLevel' = cl
  /\ UNCHANGED storage

\* the catch block: gameState = INITIAL_GAME_STATE; saveProgress()
LoadCatch(cz, cl) ==
  /\ gameState' = INITIAL_GAME_STATE
  /\ storage' = Stored(INITIAL_GAME_STATE)
  /\ currentZone' = cz
  /\ currentLevel' = cl

\* What the endless recursion of loadReviewLevel(true) ends in depends on the
\* engine: a RangeError when the stack overflows, or, where the tail call
\* `return loadReviewLevel(peek)` of this strict-mode module reuses its frame,
\* a call that never returns
EndlessRecursionOutcomes == {"RangeError", "never returns"}

\* loadProgress() stuck in loadReviewLevel(true): nothing after it is executed
LoadHangs(cz) ==
  /\ pc' = "hung"
  /\ currentZone' = cz
  /\ UNCHANGED <<gameState, currentLevel, storage>>

loadProgress ==
  /\ pc = "boot"
  /\ last' = Call("loadProgress")
  /\ before' = AtCall
  /\ UNCHANGED <<ops, threat>>
  /\ \E outcome \in EndlessRecursionOutcomes :
     IF storage.t = "malformed"
     THEN pc' = "run" /\ LoadCatch(currentZone, currentLevel)
     ELSE LET merged == loadGameState(ParsedStorage)
              gs1 == IF "isInReviewMode" \in DOMAIN merged THEN merged
                     ELSE [k \in DOMAIN merged \cup {"isInReviewMode"} |->
                             IF k = "isInReviewMode" THEN FALSE ELSE merged[k]]
              zi == ZoneIndexOf(gs1.currentZoneId)
              cz == IF zi = 0 THEN 1 ELSE zi
              zoneLevels == ZONES[cz].levels
              peeked == loadReviewLevel(gs1, currentLevel, TRUE)
              idx == IF gs1.currentLevelIndex >= Len(zoneLevels)
                     THEN Len(zoneLevels) - 1 ELSE gs1.currentLevelIndex
          IN  IF gs1.isInReviewMode
              THEN IF peeked.threw
                   THEN IF outcome = "RangeError"
                        THEN pc' = "run" /\ LoadCatch(cz, currentLevel)
                        ELSE LoadHangs(cz)
                   ELSE /\ pc' = "run"
                        /\ gameState' = gs1
                        /\ currentZone' = cz
                        /\ currentLevel' = peeked.ret
                        /\ UNCHANGED storage
              ELSE /\ pc' = "run"
                   /\ gameState' = [gs1 EXCEPT !.currentLevelIndex = idx]
                   /\ currentZone' = cz
                   /\ currentLevel' = IF LevelAt(zoneLevels, idx) # NoLevel
                                      THEN LevelAt(zoneLevels, idx)
                                      ELSE LevelAt(zoneLevels, 0)
                   /\ UNCHANGED storage

(***************************************************************************)
(* Rewards                                                                 *)
(***************************************************************************)
\* Math.round in place of Math.floor
BearPenaltyRounded(harvestReward) == (harvestReward + 1) \div 2

\* Math.floor(harvestReward * 0.5)
BearPenalty(harvestReward) == harvestReward \div 2

\* a bear that is still there when no round is left
BearLeavesLate(rounds) == rounds < 0

\* the bear leaving one round early
BearLeavesEarly(rounds) == rounds <= 1

\* if (gameState.roundsUntilBearLeaves <= 0)
BearLeaves(rounds) == rounds <= 0

\* applyReward(rewardType): the state after it and the two rewards it added
applyReward(gs, rewardType) ==
  LET fert == gs.inventory[S_fertilizerCount].v
      boosted == rewardType = "pos" /\ fert > 0
      harvestMultiplier == IF boosted THEN 2 ELSE 1
      inv1 == IF boosted
              THEN [gs.inventory EXCEPT ![S_fertilizerCount] = JNum(fert - 1)]
              ELSE gs.inventory
      base == CASE rewardType = "root" -> 1
                [] rewardType = "pos" -> 2
                [] OTHER -> 0
      gemReward == IF rewardType = "perfect" THEN 1 ELSE 0
      multiplied == base * harvestMultiplier
      harvestReward == IF gs.isBearActive THEN BearPenalty(multiplied) ELSE multiplied
      paid == gs.isBearActive /\ (harvestReward > 0 \/ gemReward > 0)
      rounds1 == IF paid THEN gs.roundsUntilBearLeaves - 1
                 ELSE gs.roundsUntilBearLeaves
      bear1 == IF paid /\ BearLeaves(rounds1) THEN FALSE ELSE gs.isBearActive
  IN  [gs |-> [gs EXCEPT !.inventory = inv1,
                         !.playerHarvest = @ + harvestReward,
                         !.playerGems = @ + gemReward,
                         !.roundsUntilBearLeaves = rounds1,
                         !.isBearActive = bear1],
       harvestReward |-> harvestReward,
       gemReward |-> gemReward]

\* bookkeeping of the reward applications that yielded something
Yielded(r) == IF r.harvestReward > 0 \/ r.gemReward > 0 THEN 1 ELSE 0

Running == pc = "run" /\ ops < MaxOps

handleRootSuccess ==
  /\ Running
  /\ LET r == applyReward(gameState, "root")
     IN  /\ gameState' = r.gs
         /\ threat' = [threat EXCEPT !.yields = @ + Yielded(r)]
  /\ ops' = ops + 1
  /\ last' = Call("handleRootSuccess")
  /\ before' = AtCall
  /\ UNCHANGED <<currentZone, currentLevel, storage, pc>>

\* a push without the includes() test
recordMistakeAgain(gs, levelId) == [gs EXCEPT !.imperfectWords = Append(@, levelId)]

\* if (!imperfectWords.includes(levelId)) imperfectWords.push(levelId)
recordMistake(gs, levelId) ==
  IF \E i \in 1 .. Len(gs.imperfectWords) : gs.imperfectWords[i] = levelId
  THEN gs
  ELSE [gs EXCEPT !.imperfectWords = Append(@, levelId)]

\* a subtraction that is not clamped
MaxUnclamped(a, b) == b

Max(a, b) == IF a >= b THEN a ELSE b
Min(a, b) == IF a <= b THEN a ELSE b

LevelIdInputs == 1 .. MaxLevelIdInput

handleRootFailure(levelId) ==
  /\ Running
  /\ gameState' = [recordMistake(gameState, levelId) EXCEPT
                     !.gardenHealth = Max(0, @ - 5)]
  /\ ops' = ops + 1
  /\ last' = [Call("handleRootFailure") EXCEPT !.levelId = levelId]
  /\ before' = AtCall
  /\ UNCHANGED <<currentZone, currentLevel, storage, pc, threat>>

handlePOSSuccess(isPerfect) ==
  /\ Running
  /\ LET r1 == applyReward(gameState, "pos")
         r2 == applyReward(r1.gs, "perfect")
         gs2 == IF isPerfect THEN r2.gs ELSE r1.gs
         n == Yielded(r1) + (IF isPerfect THEN Yielded(r2) ELSE 0)
     IN  /\ gameState' = [gs2 EXCEPT !.gardenHealth = Min(100, @ + 1)]
         /\ threat' = [threat EXCEPT !.yields = @ + n]
  /\ ops' = ops + 1
  /\ last' = [Call("handlePOSSuccess") EXCEPT !.perfect = isPerfect]
  /\ before' = AtCall
  /\ UNCHANGED <<currentZone, currentLevel, storage, pc>>

handlePOSFailure(levelId) ==
  /\ Running
  /\ gameState' = [recordMistake(gameState, levelId) EXCEPT
                     !.gardenHealth = Max(0, @ - 10)]
  /\ ops' = ops + 1
  /\ last' = [Call("handlePOSFailure") EXCEPT !.levelId = levelId]
  /\ before' = AtCall
  /\ UNCHANGED <<currentZone, currentLevel, storage, pc, threat>>

(***************************************************************************)
(* Shop: buyItem(itemId)                                                   *)
(***************************************************************************)
\* a failure result that says the same whatever the reason
FailureWithoutReason(message) == [success |-> FALSE, message |-> "Purchase failed."]

Failure(message) == [success |-> FALSE, message |-> message]

\* a purchase whose snake goes on guard and leaves the bear where it is
PurchasedBearStays(gs, item) ==
  LET paid == IF item.currencyType = "harvest"
              THEN [gs EXCEPT !.playerHarvest = @ - item.cost]
              ELSE [gs EXCEPT !.playerGems = @ - item.cost]
      inv == paid.inventory
  IN  CASE item.type = S_cosmetic ->
             [paid EXCEPT !.inventory =
                SetKey(inv, CosmeticInventoryKey(item), JStr(item.id))]
        [] item.type = S_consumable ->
             [paid EXCEPT !.inventory =
                SetKey(inv, S_fertilizerCount, JNum(inv[S_fertilizerCount].v + 1))]
        [] item.type = S_defense ->
             IF item.id = S_rattlerSnake
             THEN [paid EXCEPT !.inventory = SetKey(inv, S_snakeActive, JBool(TRUE))]
             ELSE paid
        [] OTHER -> paid

\* the state after the currency deduction and the effect of a successful purchase
Purchased(gs, item) ==
  LET paid == IF item.currencyType = "harvest"
              THEN [gs EXCEPT !.playerHarvest = @ - item.cost]
              ELSE [gs EXCEPT !.playerGems = @ - item.cost]
      inv == paid.inventory
  IN  CASE item.type = S_cosmetic ->
             [paid EXCEPT !.inventory =
                SetKey(inv, CosmeticInventoryKey(item), JStr(item.id))]
        [] item.type = S_consumable ->
             [paid EXCEPT !.inventory =
                SetKey(inv, S_fertilizerCount, JNum(inv[S_fertilizerCount].v + 1))]
        [] item.type = S_defense ->
             IF item.id = S_rattlerSnake
             THEN LET guarded == [paid EXCEPT !.inventory =
                                    SetKey(inv, S_snakeActive, JBool(TRUE))]
                  IN  IF guarded.isBearActive
                      THEN [guarded EXCEPT !.isBearActive = FALSE,
                                           !.roundsUntilBearLeaves = 0]
                      ELSE guarded
             ELSE paid
        [] OTHER -> paid

\* the validations of buyItem, in the order of the code; "ok" when all pass
Validation(gs, itemId) ==
  IF itemId \notin ShopItemIds
  THEN Failure("Error: Item not found.")
  ELSE LET item == FindItem(itemId)
       IN  IF item.type = S_cosmetic /\ Truthy(gs.inventory, item.id)
           THEN Failure("You already own this item.")
           ELSE IF item.id = S_rattlerSnake /\ Truthy(gs.inventory, S_snakeActive)
           THEN Failure("The Rattler is already guarding your garden!")
           ELSE IF item.currencyType = "harvest" /\ gs.playerHarvest < item.cost
           THEN Failure("Not enough Root Harvest! Need " \o ToString(item.cost) \o ".")
           ELSE IF item.currencyType = "gem" /\ gs.playerGems < item.cost
           THEN Failure("Not enough Guardian Gems! Need " \o ToString(item.cost) \o ".")
           ELSE [success |-> TRUE,
                 message |-> item.name \o " purchased! Garden upgraded."]

ItemIdInputs == ShopItemIds \cup {S_unknownItem}

buyItem(itemId) ==
  /\ Running
  /\ LET result == Validation(gameState, itemId)
     IN  /\ last' = [Call("buyItem") EXCEPT !.itemId = itemId,
                                            !.success = result.success,
                                            !.message = result.message]
         /\ IF result.success
            THEN LET gs1 == Purchased(gameState, FindItem(itemId))
                 IN  /\ gameState' = gs1
                     /\ storage' = Stored(gs1)
            ELSE UNCHANGED <<gameState, storage>>
  /\ ops' = ops + 1
  /\ before' = AtCall
  /\ UNCHANGED <<currentZone, currentLevel, pc, threat>>

(***************************************************************************)
(* Progression: advanceLevel(wasPerfect)                                   *)
(***************************************************************************)
\* Math.random() is drawn as d / RandomDenominator, d in RandomDraws; the chances
\* 0.05, n / 12 and 0.1 are whole multiples of 1 / RandomDenominator
RandomDenominator == 60
RandomDraws == 0 .. (RandomDenominator - 1)
\* the lowest and the highest draw: one triggers whenever the trigger is
\* evaluated, the other never does while fewer than eleven mistakes are queued
ExtremeDraws == {0, RandomDenominator - 1}

\* a chance that forgets the bonus of an imperfect attempt
TriggerChanceWithoutBonus(gs, wasPerfect) ==
  LET baseChance == RandomDenominator \div 20
      mistakes == (Len(gs.imperfectWords) * RandomDenominator) \div Len(allLevels)
  IN  baseChance + mistakes

\* baseChance + mistakeMultiplier, in units of 1 / RandomDenominator
TriggerChance(gs, wasPerfect) ==
  LET baseChance == RandomDenominator \div 20
      mistakes == (Len(gs.imperfectWords) * RandomDenominator) \div Len(allLevels)
      bonus == IF ~wasPerfect THEN RandomDenominator \div 10 ELSE 0
  IN  baseChance + mistakes + bonus

\* a trigger that is evaluated in every call
TriggerNeverSuppressed(gs) == FALSE

\* a guard that forgets the defense
TriggerSuppressedByBearOnly(gs) == gs.isBearActive

\* if (gameState.inventory.snakeActive || gameState.isBearActive) return
TriggerSuppressed(gs) == Truthy(gs.inventory, S_snakeActive) \/ gs.isBearActive

\* a trigger that starts review mode whether or not any mistake is queued
maybeTriggerBearAlwaysReviews(gs, cl, wasPerfect, d) ==
  IF TriggerSuppressed(gs)
  THEN [gs |-> gs, currentLevel |-> cl, triggered |-> FALSE]
  ELSE IF d < TriggerChance(gs, wasPerfect)
  THEN LET bear == [gs EXCEPT !.isBearActive = TRUE, !.roundsUntilBearLeaves = 3,
                              !.isInReviewMode = TRUE]
           rl == loadReviewLevel(bear, cl, FALSE)
       IN  IF Len(bear.imperfectWords) > 0
           THEN [gs |-> rl.gs, currentLevel |-> rl.currentLevel, triggered |-> TRUE]
           ELSE [gs |-> bear, currentLevel |-> cl, triggered |-> TRUE]
  ELSE [gs |-> gs, currentLevel |-> cl, triggered |-> FALSE]

\* maybeTriggerBear(wasPerfect) with the draw d: the state, the currentLevel
\* variable and whether the bear was triggered
maybeTriggerBear(gs, cl, wasPerfect, d) ==
  IF TriggerSuppressed(gs)
  THEN [gs |-> gs, currentLevel |-> cl, triggered |-> FALSE]
  ELSE IF d < TriggerChance(gs, wasPerfect)
  THEN LET bear == [gs EXCEPT !.isBearActive = TRUE, !.roundsUntilBearLeaves = 3]
           rl == loadReviewLevel([bear EXCEPT !.isInReviewMode = TRUE], cl, FALSE)
       IN  IF Len(bear.imperfectWords) > 0
           THEN [gs |-> rl.gs, currentLevel |-> rl.currentLevel, triggered |-> TRUE]
           ELSE [gs |-> bear, currentLevel |-> cl, triggered |-> TRUE]
  ELSE [gs |-> gs, currentLevel |-> cl, triggered |-> FALSE]

\* tryAdvanceZone() without the check for an empty next zone
tryAdvanceZoneIntoEmpty(gs, cz, cl) ==
  LET nextZoneIndex == ZoneIndexOf(gs.currentZoneId) + 1
  IN  IF nextZoneIndex <= Len(ZONES)
      THEN [ok |-> TRUE,
            gs |-> [gs EXCEPT !.currentZoneId = ZONES[nextZoneIndex].id,
                              !.currentLevelIndex = 0],
            currentZone |-> nextZoneIndex,
            currentLevel |-> LevelAt(ZONES[nextZoneIndex].levels, 0)]
      ELSE [ok |-> FALSE, gs |-> gs, currentZone |-> cz, currentLevel |-> cl]

\* tryAdvanceZone(): its return value, the state and the two module variables
tryAdvanceZone(gs, cz, cl) ==
  LET nextZoneIndex == ZoneIndexOf(gs.currentZoneId) + 1
  IN  IF nextZoneIndex <= Len(ZONES) /\ Len(ZONES[nextZoneIndex].levels) # 0
      THEN [ok |-> TRUE,
            gs |-> [gs EXCEPT !.currentZoneId = ZONES[nextZoneIndex].id,
                              !.currentLevelIndex = 0],
            currentZone |-> nextZoneIndex,
            currentLevel |-> ZONES[nextZoneIndex].levels[1]]
      ELSE [ok |-> FALSE, gs |-> gs, currentZone |-> cz, currentLevel |-> cl]

\* step 3 without the reset to the start of the zone when no zone follows
NormalProgressionPastTheEnd(gs, cz, cl) ==
  LET currentZoneLevels == ZONES[cz].levels
      nextIndex == gs.currentLevelIndex + 1
      zoned == tryAdvanceZone(gs, cz, cl)
      moved == IF nextIndex < Len(currentZoneLevels)
               THEN [gs |-> [gs EXCEPT !.currentLevelIndex = nextIndex],
                     currentZone |-> cz]
               ELSE IF zoned.ok
               THEN [gs |-> zoned.gs, currentZone |-> zoned.currentZone]
               ELSE [gs |-> [gs EXCEPT !.currentLevelIndex = nextIndex],
                     currentZone |-> cz]
  IN  [gs |-> moved.gs,
       currentZone |-> moved.currentZone,
       currentLevel |-> LevelAt(ZONES[moved.currentZone].levels,
                                moved.gs.currentLevelIndex)]

\* step 3 of advanceLevel and its last line, after maybeTriggerBear
NormalProgression(gs, cz, cl) ==
  LET currentZoneLevels == ZONES[cz].levels
      nextIndex == gs.currentLevelIndex + 1
      zoned == tryAdvanceZone(gs, cz, cl)
      moved == IF nextIndex < Len(currentZoneLevels)
               THEN [gs |-> [gs EXCEPT !.currentLevelIndex = nextIndex],
                     currentZone |-> cz]
               ELSE IF zoned.ok
               THEN [gs |-> zoned.gs, currentZone |-> zoned.currentZone]
               ELSE [gs |-> [gs EXCEPT !.currentLevelIndex = 0], currentZone |-> cz]
  IN  [gs |-> moved.gs,
       currentZone |-> moved.currentZone,
       \* currentLevel = currentZone.levels[gameState.currentLevelIndex]
       currentLevel |-> LevelAt(ZONES[moved.currentZone].levels,
                                moved.gs.currentLevelIndex)]

\* imperfectWords.pop() in place of shift(): the newest mistake leaves
ShiftNewest(q) == IF Len(q) = 0 THEN q ELSE SubSeq(q, 1, Len(q) - 1)

\* imperfectWords.shift(): nothing happens on an empty array
Shift(q) == IF Len(q) = 0 THEN q ELSE Tail(q)

advanceLevel(wasPerfect, d) ==
  /\ Running
  /\ storage' = Stored(gameState)
  /\ LET shifted == IF wasPerfect
                    THEN [gameState EXCEPT !.imperfectWords = Shift(@)]
                    ELSE gameState
         rl == loadReviewLevel(shifted, currentLevel, FALSE)
         bear == IF gameState.isInReviewMode
                 THEN maybeTriggerBear(rl.gs, rl.currentLevel, wasPerfect, d)
                 ELSE maybeTriggerBear(gameState, currentLevel, wasPerfect, d)
         np == NormalProgression(bear.gs, currentZone, bear.currentLevel)
     IN  /\ IF gameState.isInReviewMode /\ rl.ret # NoLevel
            THEN /\ gameState' = rl.gs
                 /\ currentLevel' = rl.currentLevel
                 /\ UNCHANGED <<currentZone, threat>>
            ELSE /\ gameState' = np.gs
                 /\ currentZone' = np.currentZone
                 /\ currentLevel' = np.currentLevel
                 /\ threat' = IF bear.triggered
                              THEN [triggered |-> TRUE, yields |-> 0]
                              ELSE threat
  /\ ops' = ops + 1
  /\ last' = [Call("advanceLevel") EXCEPT !.perfect = wasPerfect, !.draw = d]
  /\ before' = AtCall
  /\ UNCHANGED pc

(***************************************************************************)
(* Specification                                                           *)
(***************************************************************************)
Next ==
  \/ loadProgress
  \/ handleRootSuccess
  \/ \E levelId \in LevelIdInputs : handleRootFailure(levelId)
  \/ \E isPerfect \in BOOLEAN : handlePOSSuccess(isPerfect)
  \/ \E levelId \in LevelIdInputs : handlePOSFailure(levelId)
  \/ \E itemId \in ItemIdInputs : buyItem(itemId)
  \/ \E wasPerfect \in BOOLEAN, d \in ExtremeDraws : advanceLevel(wasPerfect, d)

Spec == Init /\ [][Next]_vars

(***************************************************************************)
(* The trigger under every draw and every length of the mistake queue      *)
(***************************************************************************)
\* number of exported calls made after startup when every draw is followed
MaxDrawnOps == 1

\* A record an earlier run wrote: first-phase failures on the levels 1 .. n,
\* each taking 5 off the health, saved by the advanceLevel call that followed
SavedWithMistakes(n) ==
  [INITIAL_GAME_STATE EXCEPT !.imperfectWords = [i \in 1 .. n |-> i],
                             !.gardenHealth = 100 - 5 * n]

SavedMistakeRecords == {Stored(SavedWithMistakes(n)) : n \in 0 .. Len(allLevels)}

InitDraws ==
  /\ gameState = INITIAL_GAME_STATE
  /\ currentZone = 1
  /\ currentLevel = ZONES[1].levels[1]
  /\ storage \in SavedMistakeRecords
  /\ pc = "boot"
  /\ ops = 0
  /\ last = NoCall
  /\ before = AtCall
  /\ threat = [triggered |-> FALSE, yields |-> 0]

DrawnCall == ops < MaxDrawnOps

\* startup, then failures and advanceLevel calls under every value of
\* Math.random()
NextDraws ==
  \/ loadProgress
  \/ DrawnCall /\ \E levelId \in LevelIdInputs : handleRootFailure(levelId)
  \/ DrawnCall /\ \E levelId \in LevelIdInputs : handlePOSFailure(levelId)
  \/ DrawnCall /\ \E wasPerfect \in BOOLEAN, d \in RandomDraws :
                    advanceLevel(wasPerfect, d)

SpecDraws == InitDraws /\ [][NextDraws]_vars

(***************************************************************************)
(* The game started on a record saved in review mode                       *)
(***************************************************************************)
\* an id of no level of this catalogue (a level of another catalogue version)
StaleLevelId == Len(allLevels) + 1

\* A record an earlier run wrote: nine second-phase failures and one
\* first-phase failure on levels 1 and 2 (health 5), an advanceLevel call in
\* which the bear triggered, saved by the next advanceLevel call
SavedInReview ==
  [INITIAL_GAME_STATE EXCEPT !.currentLevelIndex = 1,
                             !.imperfectWords = <<1, 2>>,
                             !.gardenHealth = 5,
                             !.isBearActive = TRUE,
                             !.roundsUntilBearLeaves = 3,
                             !.isInReviewMode = TRUE]

\* records of that kind whose queue holds an id that names no level of the
\* catalogue the game now runs with: at the head, and behind the head
SavedStaleHead == [SavedInReview EXCEPT !.imperfectWords = <<StaleLevelId, 1>>]
SavedStaleInside == [SavedInReview EXCEPT !.imperfectWords = <<1, StaleLevelId, 2>>]
SavedStaleLast == [SavedInReview EXCEPT !.imperfectWords = <<1, StaleLevelId>>]

SavedGames ==
  {Stored(SavedInReview), Stored(SavedStaleHead), Stored(SavedStaleInside),
   Stored(SavedStaleLast)}

InitSaved ==
  /\ gameState = INITIAL_GAME_STATE
  /\ currentZone = 1
  /\ currentLevel = ZONES[1].levels[1]
  /\ storage \in SavedGames
  /\ pc = "boot"
  /\ ops = 0
  /\ last = NoCall
  /\ before = AtCall
  /\ threat = [triggered |-> TRUE, yields |-> 0]

SpecSaved == InitSaved /\ [][Next]_vars

(***************************************************************************)
(* Properties                                                              *)
(***************************************************************************)
Queue(gs) == gs.imperfectWords
FertilizerCount(gs) == gs.inventory[S_fertilizerCount].v
Advanced == last.op = "advanceLevel"

\* C1: after every operation, whenever isInReviewMode is true the level returned
\* by getCurrentLevel() is the level whose id is the head of the mistake queue
C1_ReviewLevelIsQueueHead ==
  (pc = "run" /\ gameState.isInReviewMode) =>
    /\ Len(Queue(gameState)) > 0
    /\ currentLevel = Head(Queue(gameState))

\* C2: whenever advanceLevel removes the head of the mistake queue as a resolved
\* review item (review mode, wasPerfect, queue not empty), that head is the id of
\* the level that was current when advanceLevel was called
C2_ResolvedHeadWasCurrent ==
  (/\ Advanced
   /\ last.perfect
   /\ before.gameState.isInReviewMode
   /\ Len(Queue(before.gameState)) > 0) =>
    Head(Queue(before.gameState)) = before.currentLevel

\* C3: an advanceLevel call made outside review mode in which the bear triggers
\* with a non-empty mistake queue leaves currentLevelIndex and currentZoneId as
\* they were at the call and ends in review mode
C3_TriggerSkipsSequentialAdvance ==
  (/\ Advanced
   /\ ~before.gameState.isInReviewMode
   /\ ~before.gameState.isBearActive
   /\ gameState.isBearActive
   /\ Len(Queue(before.gameState)) > 0) =>
    /\ gameState.currentLevelIndex = before.gameState.currentLevelIndex
    /\ gameState.currentZoneId = before.gameState.currentZoneId
    /\ gameState.isInReviewMode

PhaseHandlers ==
  {"handleRootSuccess", "handleRootFailure", "handlePOSSuccess", "handlePOSFailure"}
Bought == last.op = "buyItem" /\ last.success

\* C4 (as claimed): at the return of every mutating operation (a phase handler
\* that changed the state, advanceLevel, a successful purchase) the persisted
\* record equals the in-memory state
C4_PersistedAfterEveryMutation ==
  (\/ last.op \in PhaseHandlers /\ gameState # before.gameState
   \/ Advanced
   \/ Bought) =>
    /\ storage.t = "json"
    /\ storage.v = gameState

\* C4 (amended): a successful purchase persists the state it produced;
\* advanceLevel persists the state as it was when it was called, before any
\* progression change; the phase handlers and a failed purchase leave the
\* persisted record alone
C4_PersistencePoints ==
  /\ Bought => storage.t = "json" /\ storage.v = gameState
  /\ Advanced => storage.t = "json" /\ storage.v = before.gameState
  /\ (last.op \in PhaseHandlers \/ (last.op = "buyItem" /\ ~last.success)) =>
       storage = before.storage

\* C4 witness: advanceLevel changed the state and the record holds the old state
C4_Witness ==
  /\ Advanced
  /\ storage.t = "json"
  /\ storage.v = before.gameState
  /\ gameState # before.gameState

CosmeticIds ==
  { SHOP_ITEMS[i].id : i \in { j \in 1 .. Len(SHOP_ITEMS) : SHOP_ITEMS[j].type = S_cosmetic } }

\* the item id is recorded in some inventory slot: it was bought before
Holds(inventory, itemId) ==
  \E k \in DOMAIN inventory : inventory[k].t = "str" /\ inventory[k].v = itemId

\* C5: buying a cosmetic item that was bought successfully before fails and
\* deducts no currency
C5_OwnedCosmeticNotSoldAgain ==
  (/\ last.op = "buyItem"
   /\ last.itemId \in CosmeticIds
   /\ Holds(before.gameState.inventory, last.itemId)) =>
    /\ ~last.success
    /\ gameState.playerHarvest = before.gameState.playerHarvest
    /\ gameState.playerGems = before.gameState.playerGems

Loaded == last.op = "loadProgress"

\* C6 (as claimed): startup with a missing or a malformed entry ends with the
\* default state in memory and the default state persisted
C6_FallbackIsPersisted ==
  (Loaded /\ before.storage.t \in {"missing", "malformed"}) =>
    /\ gameState = INITIAL_GAME_STATE
    /\ storage.t = "json"
    /\ storage.v = INITIAL_GAME_STATE

\* C6 (amended): startup with a missing or a malformed entry ends with the
\* default state in memory; the default state is persisted when the entry was
\* malformed, and the entry stays missing when it was missing
C6_FallbackPersistedOnlyWhenMalformed ==
  /\ (Loaded /\ before.storage.t = "malformed") =>
       /\ gameState = INITIAL_GAME_STATE
       /\ storage.t = "json"
       /\ storage.v = INITIAL_GAME_STATE
  /\ (Loaded /\ before.storage.t = "missing") =>
       /\ gameState = INITIAL_GAME_STATE
       /\ storage.t = "missing"

\* C6 witness: the game started with no entry, and no entry was written
C6_Witness ==
  /\ Loaded
  /\ before.storage.t = "missing"
  /\ storage.t = "missing"
  /\ gameState = INITIAL_GAME_STATE

\* the soft yield of the claim: base, doubled for posSuccess with fertilizer,
\* then halved and floored under a threat
SoftYield(eventKind, fertilizerCount, threatActive) ==
  LET base == CASE eventKind = "rootSuccess" -> 1
                [] eventKind = "posSuccess" -> 2
                [] eventKind = "perfectBonus" -> 0
      doubled == IF eventKind = "posSuccess" /\ fertilizerCount > 0
                 THEN 2 * base ELSE base
  IN  IF threatActive
      THEN CHOOSE n \in 0 .. doubled : 2 * n <= doubled /\ doubled < 2 * (n + 1)
      ELSE doubled

HardYield(eventKind) == IF eventKind = "perfectBonus" THEN 1 ELSE 0

\* C7: a reward changes the soft currency by SoftYield, the hard currency by 1
\* iff the event is perfectBonus, and consumes one fertilizer iff the event is
\* posSuccess and the count was positive.  handleRootSuccess applies rootSuccess;
\* handlePOSSuccess applies posSuccess and, when perfect, perfectBonus
C7_RewardDeltas ==
  LET b == before.gameState
      fert == FertilizerCount(b)
      softDelta == gameState.playerHarvest - b.playerHarvest
      hardDelta == gameState.playerGems - b.playerGems
      fertDelta == FertilizerCount(gameState) - fert
  IN  /\ last.op = "handleRootSuccess" =>
           /\ softDelta = SoftYield("rootSuccess", fert, b.isBearActive)
           /\ hardDelta = HardYield("rootSuccess")
           /\ fertDelta = 0
           /\ (~b.isBearActive => softDelta = 1)
      /\ last.op = "handlePOSSuccess" =>
           /\ softDelta = SoftYield("posSuccess", fert, b.isBearActive)
                            + (IF last.perfect
                               THEN SoftYield("perfectBonus", fert, b.isBearActive)
                               ELSE 0)
           /\ hardDelta = HardYield("posSuccess")
                            + (IF last.perfect THEN HardYield("perfectBonus") ELSE 0)
           /\ fertDelta = (IF fert > 0 THEN -1 ELSE 0)
           /\ (b.isBearActive /\ fert = 1 =>
                 softDelta = 2 /\ FertilizerCount(gameState) = 0)

\* C7 witness: posSuccess applied under a threat with one fertilizer
C7_Witness ==
  /\ last.op = "handlePOSSuccess"
  /\ before.gameState.isBearActive
  /\ FertilizerCount(before.gameState) = 1
  /\ FertilizerCount(gameState) = 0
  /\ gameState.playerHarvest = before.gameState.playerHarvest + 2

SnakeActive(gs) == gs.inventory[S_snakeActive].v

\* C8: after a trigger and without the defense, the threat is active with counter
\* 3 - n after n < 3 reward applications that yielded something, and from the
\* third such application on the flag is cleared and the counter is 0; a
\* rootSuccess under a threat yields nothing and changes neither
C8_ThreatLeavesAtThirdYield ==
  /\ (pc = "run" /\ threat.triggered /\ ~SnakeActive(gameState)) =>
       IF threat.yields < 3
       THEN /\ gameState.isBearActive
            /\ gameState.roundsUntilBearLeaves = 3 - threat.yields
       ELSE /\ ~gameState.isBearActive
            /\ gameState.roundsUntilBearLeaves = 0
  /\ (last.op = "handleRootSuccess" /\ before.gameState.isBearActive) =>
       /\ gameState.playerHarvest = before.gameState.playerHarvest
       /\ gameState.isBearActive
       /\ gameState.roundsUntilBearLeaves = before.gameState.roundsUntilBearLeaves

\* C8 witness: the third yielding reward application has just cleared the threat
C8_Witness ==
  /\ threat.triggered
  /\ threat.yields = 3
  /\ ~SnakeActive(gameState)
  /\ before.gameState.isBearActive
  /\ before.gameState.roundsUntilBearLeaves = 1
  /\ ~gameState.isBearActive
  /\ gameState.roundsUntilBearLeaves = 0

\* C9: the queue after a call is the queue before it, or that queue with the
\* recorded id appended at the tail, or that queue without its head; in review
\* mode advanceLevel(true) removes exactly the head and advanceLevel(false)
\* leaves the queue as it was and loads its head
C9_QueueIsFifo ==
  LET old == Queue(before.gameState)
      new == Queue(gameState)
  IN  /\ last.op \in {"handleRootFailure", "handlePOSFailure"} =>
           \/ new = old
           \/ new = Append(old, last.levelId)
      /\ last.op \in {"handleRootSuccess", "handlePOSSuccess", "buyItem"} => new = old
      /\ Advanced =>
           \/ new = old
           \/ Len(old) > 0 /\ new = Tail(old)
      /\ (Advanced /\ before.gameState.isInReviewMode /\ last.perfect) =>
           Len(old) > 0 /\ new = Tail(old)
      /\ (Advanced /\ before.gameState.isInReviewMode /\ ~last.perfect) =>
           /\ new = old
           /\ gameState.isInReviewMode
           /\ currentLevel = Head(old)

\* C9 witness: advanceLevel(true) in review mode took the head off a queue of
\* at least two and stayed in review mode
C9_Witness ==
  /\ Advanced
  /\ last.perfect
  /\ before.gameState.isInReviewMode
  /\ Len(Queue(before.gameState)) >= 2
  /\ Queue(gameState) = Tail(Queue(before.gameState))
  /\ gameState.isInReviewMode

\* the position the claim gives after a sequential advance
NextPosition(zoneId, index) ==
  LET zi == CHOOSE i \in 1 .. Len(ZONES) : ZONES[i].id = zoneId
  IN  IF index + 1 < Len(ZONES[zi].levels)
      THEN [zoneId |-> zoneId, index |-> index + 1]
      ELSE IF zi + 1 <= Len(ZONES) /\ Len(ZONES[zi + 1].levels) >= 1
      THEN [zoneId |-> ZONES[zi + 1].id, index |-> 0]
      ELSE [zoneId |-> zoneId, index |-> 0]

\* C10: an advanceLevel call that was not in review mode and did not enter it
\* moves to NextPosition of the old position, and the current level is the
\* level at the new position
C10_SequentialAdvance ==
  (Advanced /\ ~before.gameState.isInReviewMode /\ ~gameState.isInReviewMode) =>
    LET b == before.gameState
        pos == NextPosition(b.currentZoneId, b.currentLevelIndex)
        zi == CHOOSE i \in 1 .. Len(ZONES) : ZONES[i].id = pos.zoneId
    IN  /\ gameState.currentZoneId = pos.zoneId
        /\ gameState.currentLevelIndex = pos.index
        /\ currentLevel = ZONES[zi].levels[pos.index + 1]

\* C10 witness: advanceLevel(true) on the last level of the last zone that has
\* levels went back to index 0 of that zone
C10_Witness ==
  /\ Advanced
  /\ last.perfect
  /\ ~before.gameState.isInReviewMode
  /\ ~gameState.isInReviewMode
  /\ before.gameState.currentZoneId = "MossyGlade"
  /\ before.gameState.currentLevelIndex = 5
  /\ gameState.currentZoneId = "MossyGlade"
  /\ gameState.currentLevelIndex = 0
  /\ currentLevel = 7


Resolvable(id) == FindLevel(id) # NoLevel
AllResolvable(q) == \A i \in 1 .. Len(q) : Resolvable(q[i])

\* C11: in review mode with a queue of n resolvable ids, each advanceLevel(true)
\* call takes exactly one id off the queue; the engine is still in review mode
\* after it while ids remain (the first n-1 calls) and is out of review mode
\* with an empty queue after the call that takes the last one (the n-th); the
\* calls that are not failure handlers (success handlers, purchases) made in
\* between change neither the queue nor the mode
C11_PerfectReviewRunEnds ==
  LET old == Queue(before.gameState)
      new == Queue(gameState)
  IN  /\ (/\ Advanced
          /\ last.perfect
          /\ before.gameState.isInReviewMode
          /\ Len(old) >= 1
          /\ AllResolvable(old)) =>
            /\ new = Tail(old)
            /\ Len(old) >= 2 => gameState.isInReviewMode
            /\ Len(old) = 1 => ~gameState.isInReviewMode /\ new = <<>>
      /\ (/\ last.op \in {"handleRootSuccess", "handlePOSSuccess", "buyItem"}
          /\ before.gameState.isInReviewMode) =>
            /\ new = old
            /\ gameState.isInReviewMode

\* C11 witness: the record saved in review mode with the queue <<1, 2>> was
\* loaded and two advanceLevel(true) calls followed; the second one ended
\* review mode with the queue empty
C11_Witness ==
  /\ ops = 2
  /\ Advanced
  /\ last.perfect
  /\ before.gameState.isInReviewMode
  /\ Queue(before.gameState) = <<2>>
  /\ ~gameState.isInReviewMode
  /\ Queue(gameState) = <<>>

\* C12: after every operation review mode implies a non-empty mistake queue; an
\* advanceLevel call in which the bear triggers and that ends with an empty
\* queue has activated the bear (isBearActive, three rounds) without review
\* mode; an advanceLevel call made in review mode that ends with an empty
\* queue ends out of review mode
C12_ReviewNeedsQueuedMistake ==
  /\ (pc = "run" /\ gameState.isInReviewMode) => Len(Queue(gameState)) > 0
  /\ (/\ Advanced
      /\ ~before.gameState.isBearActive
      /\ gameState.isBearActive
      /\ Len(Queue(gameState)) = 0) =>
        /\ ~gameState.isInReviewMode
        /\ gameState.roundsUntilBearLeaves = 3
  /\ (/\ Advanced
      /\ before.gameState.isInReviewMode
      /\ Len(Queue(gameState)) = 0) =>
        ~gameState.isInReviewMode

\* C12 witness: outside review mode and with no mistake queued the bear
\* triggered in an advanceLevel call
C12_Witness ==
  /\ Advanced
  /\ ~before.gameState.isInReviewMode
  /\ ~before.gameState.isBearActive
  /\ Len(Queue(before.gameState)) = 0
  /\ gameState.isBearActive
  /\ gameState.roundsUntilBearLeaves = 3
  /\ ~gameState.isInReviewMode

\* C13: gardenHealth is an integer in 0 .. 100 after every call; a first-phase
\* failure takes 5 off and a second-phase failure 10, stopping at 0; a
\* second-phase success adds 1, stopping at 100; a first-phase success,
\* advanceLevel and buyItem leave it as it was
C13_GardenHealthInRange ==
  LET old == before.gameState.gardenHealth
      new == gameState.gardenHealth
  IN  /\ pc = "run" => new \in 0 .. 100
      /\ last.op = "handleRootFailure" => new = (IF old - 5 < 0 THEN 0 ELSE old - 5)
      /\ last.op = "handlePOSFailure" => new = (IF old - 10 < 0 THEN 0 ELSE old - 10)
      /\ last.op = "handlePOSSuccess" => new = (IF old + 1 > 100 THEN 100 ELSE old + 1)
      /\ last.op \in {"handleRootSuccess", "advanceLevel", "buyItem"} => new = old

\* C13 witness: a second-phase failure at health 5 stopped at 0
C13_Witness ==
  /\ last.op = "handlePOSFailure"
  /\ before.gameState.gardenHealth = 5
  /\ gameState.gardenHealth = 0

InQueue(q, id) == \E i \in 1 .. Len(q) : q[i] = id
NoDuplicates(q) == \A i, j \in 1 .. Len(q) : q[i] = q[j] => i = j

\* C14: no id occurs twice in the mistake queue; a failure handler called for
\* an id that is already queued leaves the queue exactly as it was, and one
\* called for an id that is not queued appends it
C14_QueueHasNoDuplicates ==
  LET old == Queue(before.gameState)
      new == Queue(gameState)
  IN  /\ NoDuplicates(new)
      /\ (/\ last.op \in {"handleRootFailure", "handlePOSFailure"}
          /\ InQueue(old, last.levelId)) => new = old
      /\ (/\ last.op \in {"handleRootFailure", "handlePOSFailure"}
          /\ ~InQueue(old, last.levelId)) => new = Append(old, last.levelId)

\* C14 witness: a second-phase failure on a level whose id was queued, behind
\* another id, left the queue as it was
C14_Witness ==
  /\ last.op = "handlePOSFailure"
  /\ Len(Queue(before.gameState)) = 2
  /\ Queue(before.gameState)[2] = last.levelId
  /\ Queue(gameState) = Queue(before.gameState)

\* C15: in every state outside review mode currentZoneId names a zone of ZONES
\* that has at least one level and currentLevelIndex is a position of that
\* zone's level list: 0 <= currentLevelIndex < number of levels
C15_PositionInsideZone ==
  ~gameState.isInReviewMode =>
    LET zi == ZoneIndexOf(gameState.currentZoneId)
    IN  /\ zi \in 1 .. Len(ZONES)
        /\ Len(ZONES[zi].levels) >= 1
        /\ gameState.currentLevelIndex >= 0
        /\ gameState.currentLevelIndex < Len(ZONES[zi].levels)

\* C15 witness: outside review mode advanceLevel left the last level of the
\* first zone and arrived at index 0 of the second zone
C15_Witness ==
  /\ Advanced
  /\ ~before.gameState.isInReviewMode
  /\ ~gameState.isInReviewMode
  /\ before.gameState.currentZoneId = ZONES[1].id
  /\ before.gameState.currentLevelIndex = Len(ZONES[1].levels) - 1
  /\ gameState.currentZoneId = ZONES[2].id
  /\ gameState.currentLevelIndex = 0

\* C16: an advanceLevel call made while the snake guards the garden or while
\* the bear is already there leaves isBearActive and roundsUntilBearLeaves as
\* they were, whatever wasPerfect, the length of the queue and the draw
C16_NoTriggerWhenGuardedOrThreatened ==
  (/\ Advanced
   /\ \/ SnakeActive(before.gameState)
      \/ before.gameState.isBearActive) =>
    /\ gameState.isBearActive = before.gameState.isBearActive
    /\ gameState.roundsUntilBearLeaves = before.gameState.roundsUntilBearLeaves

\* C16 witness: advanceLevel(false) was called with the snake on guard, no bear
\* and a mistake queued, and no bear came
C16_Witness ==
  /\ Advanced
  /\ ~last.perfect
  /\ SnakeActive(before.gameState)
  /\ ~before.gameState.isBearActive
  /\ Len(Queue(before.gameState)) > 0
  /\ ~gameState.isBearActive
  /\ gameState.roundsUntilBearLeaves = 0

\* C17: a successful purchase of a defense item made while the bear is active
\* ends, in that call, with isBearActive false, roundsUntilBearLeaves 0 and the
\* snakeActive flag set; the balance of the item's currency is lower by the
\* item's cost, once, and the balance of the other currency is as it was
C17_DefensePurchaseScaresBear ==
  (/\ Bought
   /\ FindItem(last.itemId).type = S_defense
   /\ before.gameState.isBearActive) =>
    LET item == FindItem(last.itemId)
        old == before.gameState
    IN  /\ ~gameState.isBearActive
        /\ gameState.roundsUntilBearLeaves = 0
        /\ SnakeActive(gameState)
        /\ item.currencyType = "gem" =>
             /\ gameState.playerGems = old.playerGems - item.cost
             /\ gameState.playerHarvest = old.playerHarvest
        /\ item.currencyType = "harvest" =>
             /\ gameState.playerHarvest = old.playerHarvest - item.cost
             /\ gameState.playerGems = old.playerGems

\* C17 witness: the rattler snake was bought for 10 of 13 gems while the bear
\* had rounds left, and the bear was gone after the call
C17_Witness ==
  /\ Bought
  /\ last.itemId = S_rattlerSnake
  /\ before.gameState.isBearActive
  /\ before.gameState.roundsUntilBearLeaves > 0
  /\ before.gameState.playerGems = 13
  /\ gameState.playerGems = 3
  /\ ~gameState.isBearActive
  /\ SnakeActive(gameState)

\* the three reasons of the claim, for the purchase last called
UnknownItem == last.itemId \notin ShopItemIds
DefenseAlreadyActive ==
  /\ ~UnknownItem
  /\ FindItem(last.itemId).type = S_defense
  /\ SnakeActive(before.gameState)
BalanceTooLow ==
  /\ ~UnknownItem
  /\ LET item == FindItem(last.itemId)
     IN  \/ item.currencyType = "harvest" /\ before.gameState.playerHarvest < item.cost
         \/ item.currencyType = "gem" /\ before.gameState.playerGems < item.cost

\* the messages of the code, by reason
UnknownItemMessage == "Error: Item not found."
DefenseAlreadyActiveMessage == "The Rattler is already guarding your garden!"
BalanceTooLowMessage(item) ==
  IF item.currencyType = "harvest"
  THEN "Not enough Root Harvest! Need " \o ToString(item.cost) \o "."
  ELSE "Not enough Guardian Gems! Need " \o ToString(item.cost) \o "."

\* C18: a buyItem call for which one of the validations fails (unknown item,
\* defense already active, balance of the item's currency below its cost)
\* returns success = false and leaves gameState, the current zone and level and
\* the persisted record as they were; the message is the one of the first
\* validation that failed, and the messages of different reasons differ
C18_FailedPurchaseChangesNothing ==
  /\ (last.op = "buyItem" /\ (UnknownItem \/ DefenseAlreadyActive \/ BalanceTooLow)) =>
       /\ ~last.success
       /\ gameState = before.gameState
       /\ currentZone = before.currentZone
       /\ currentLevel = before.currentLevel
       /\ storage = before.storage
  /\ (last.op = "buyItem" /\ UnknownItem) => last.message = UnknownItemMessage
  /\ (last.op = "buyItem" /\ DefenseAlreadyActive) =>
       last.message = DefenseAlreadyActiveMessage
  /\ (last.op = "buyItem" /\ BalanceTooLow /\ ~DefenseAlreadyActive
        /\ ~Truthy(before.gameState.inventory, last.itemId)) =>
       last.message = BalanceTooLowMessage(FindItem(last.itemId))
  /\ UnknownItemMessage # DefenseAlreadyActiveMessage
  /\ \A i \in 1 .. Len(SHOP_ITEMS) :
       /\ BalanceTooLowMessage(SHOP_ITEMS[i]) # UnknownItemMessage
       /\ BalanceTooLowMessage(SHOP_ITEMS[i]) # DefenseAlreadyActiveMessage

\* C18 witness: with 3 gems left and the snake on guard a second snake was
\* refused with the message of the active defense, and nothing changed
C18_Witness ==
  /\ last.op = "buyItem"
  /\ ~last.success
  /\ last.itemId = S_rattlerSnake
  /\ SnakeActive(before.gameState)
  /\ before.gameState.playerGems = 3
  /\ last.message = DefenseAlreadyActiveMessage
  /\ gameState = before.gameState
  /\ storage = before.storage

\* the first id of q that names a level of the catalogue, NoLevel if none does
FirstResolvable(q) ==
  IF \E i \in 1 .. Len(q) : Resolvable(q[i])
  THEN q[CHOOSE i \in 1 .. Len(q) :
           /\ Resolvable(q[i])
           /\ \A j \in 1 .. (i - 1) : ~Resolvable(q[j])]
  ELSE NoLevel

\* C19: loading a record saved in review mode returns for every content of its
\* mistake queue, a queue whose head names no level included; the lookup
\* leaves the loaded queue as saved and makes the first resolvable level of
\* the queue the current level (none if no id resolves)
C19_PeekTerminatesOnEveryQueue ==
  (/\ Loaded
   /\ before.storage.t = "json"
   /\ before.storage.v.isInReviewMode) =>
    /\ pc = "run"
    /\ gameState = before.storage.v
    /\ currentLevel = FirstResolvable(Queue(before.storage.v))

\* q without the ids at its head that name no level
RECURSIVE DropStalePrefix(_)
DropStalePrefix(q) ==
  IF Len(q) = 0 \/ Resolvable(Head(q)) THEN q ELSE DropStalePrefix(Tail(q))

\* C20: an advanceLevel call made in review mode returns with the queue it
\* started from, less the head when wasPerfect, and less the ids behind it that
\* name no level, up to the first id that does: no resolvable id is removed by
\* the cleanup; if an id is left its level is the current level and the engine
\* is in review mode, otherwise the engine is out of review mode
C20_StaleHeadsAreDropped ==
  (Advanced /\ before.gameState.isInReviewMode) =>
    LET old == Queue(before.gameState)
        answered == IF last.perfect /\ Len(old) > 0 THEN Tail(old) ELSE old
        new == Queue(gameState)
    IN  /\ pc = "run"
        /\ new = DropStalePrefix(answered)
        /\ new # <<>> => gameState.isInReviewMode /\ currentLevel = Head(new)
        /\ new = <<>> => ~gameState.isInReviewMode

\* C20 witness: advanceLevel(true) on the queue <<1, 13, 2>> took off the
\* answered 1 and the stale 13 and stayed in review mode on level 2
C20_Witness ==
  /\ Advanced
  /\ last.perfect
  /\ before.gameState.isInReviewMode
  /\ Queue(before.gameState) = <<1, StaleLevelId, 2>>
  /\ Queue(gameState) = <<2>>
  /\ gameState.isInReviewMode
  /\ currentLevel = 2

\* the queue maybeTriggerBear finds in the advanceLevel call last made
QueueAtTrigger ==
  LET old == Queue(before.gameState)
  IN  IF before.gameState.isInReviewMode
      THEN DropStalePrefix(IF last.perfect /\ Len(old) > 0 THEN Tail(old) ELSE old)
      ELSE old

\* the advanceLevel call last made evaluated the trigger: no defense, no bear,
\* and no review level left to load
TriggerEvaluated ==
  /\ Advanced
  /\ ~SnakeActive(before.gameState)
  /\ ~before.gameState.isBearActive
  /\ before.gameState.isInReviewMode => QueueAtTrigger = <<>>

\* r < 1/20 + length/total + (1/10 if imperfect), r = draw / RandomDenominator,
\* with both sides multiplied by RandomDenominator * 20 * total * 10
DrawBelowChance ==
  LET total == Len(allLevels)
      scale == RandomDenominator * 20 * total * 10
      chance == (scale \div 20) + (Len(QueueAtTrigger) * (scale \div total))
                  + (IF last.perfect THEN 0 ELSE scale \div 10)
  IN  last.draw * (scale \div RandomDenominator) < chance

ChanceAtLeastOne ==
  LET total == Len(allLevels)
      scale == 20 * total * 10
  IN  (scale \div 20) + (Len(QueueAtTrigger) * (scale \div total))
        + (IF last.perfect THEN 0 ELSE scale \div 10) >= scale

\* C21: when advanceLevel evaluates the trigger, the bear becomes active if
\* and only if the draw r satisfies r < 0.05 + imperfectWords.length /
\* allLevels.length + (0.1 if wasPerfect is false); the sum is not capped, so
\* the bear comes under every draw when the sum is 1 or more
C21_TriggerChance ==
  TriggerEvaluated =>
    /\ gameState.isBearActive <=> DrawBelowChance
    /\ ChanceAtLeastOne => gameState.isBearActive

\* C21 witness: with eleven mistakes queued and an imperfect attempt the sum is
\* above 1 and the bear came under the highest draw
C21_Witness ==
  /\ TriggerEvaluated
  /\ ~last.perfect
  /\ Len(QueueAtTrigger) = 11
  /\ last.draw = RandomDenominator - 1
  /\ ChanceAtLeastOne
  /\ gameState.isBearActive

\* C22: in every state the bear flag and its counter go together: while
\* isBearActive, roundsUntilBearLeaves is 1, 2 or 3; otherwise it is 0; it is
\* never negative
C22_BearFlagAndCounter ==
  /\ gameState.roundsUntilBearLeaves >= 0
  /\ gameState.isBearActive => gameState.roundsUntilBearLeaves \in 1 .. 3
  /\ ~gameState.isBearActive => gameState.roundsUntilBearLeaves = 0

\* C22 witness: the second reward paid under the bear left it one round
C22_Witness ==
  /\ last.op \in PhaseHandlers
  /\ before.gameState.isBearActive
  /\ before.gameState.roundsUntilBearLeaves = 2
  /\ gameState.isBearActive
  /\ gameState.roundsUntilBearLeaves = 1

====
